---- MODULE Spec2Model ----
(***************************************************************************)
(* Model of kauldron/typing/shape_spec.py: the shape-spec grammar, the     *)
(* transformer that builds the DimSpec tree, the nodes' __repr__ and       *)
(* evaluate.                                                               *)
(*                                                                         *)
(* A Python str is a sequence of one-character strings.  A DimSpec node is *)
(* a record whose "type" field names its dataclass and whose other fields  *)
(* are the dataclass fields.  None is the empty sequence (a NAME is never  *)
(* empty).  A call that raises is modelled by an outcome record whose      *)
(* "kind" is the exception class.                                          *)
(***************************************************************************)
EXTENDS Integers, Sequences, FiniteSets, TLC

(***************************************************************************)
(* Characters and terminals of the grammar.                                *)
(***************************************************************************)
LETTER ==
  {"a", "b", "c", "d", "h", "i", "m", "n", "o", "p", "r", "s", "u", "v", "w", "x"}

DigitSeq == <<"0", "1", "2", "3", "4", "5", "6", "7", "8", "9">>

DIGIT == {DigitSeq[k] : k \in 1..10}

WS_INLINE == {" ", "\t"}

None == <<>>

FUNC == {<<"m", "i", "n">>, <<"m", "a", "x">>, <<"s", "u", "m">>, <<"p", "r", "o", "d">>}

SUM_OP == {<<"+">>, <<"-">>}

MUL_OP == {<<"*">>, <<"/">>, <<"/", "/">>, <<"%">>}

POW_OP == {<<"*", "*">>}

\* the character at position i of s, or "" past the end
At(s, i) == IF i >= 1 /\ i <= Len(s) THEN s[i] ELSE ""

\* the end (exclusive) of the longest run of characters of set cs starting at i
RECURSIVE RunEnd(_, _, _)
RunEnd(s, i, cs) == IF At(s, i) \in cs THEN RunEnd(s, i + 1, cs) ELSE i

\* the end of the NAME starting at i (i itself when no NAME starts there)
NameEnd(s, i) ==
  IF At(s, i) \in LETTER THEN RunEnd(s, i + 1, LETTER \cup DIGIT \cup {"_"}) ELSE i

\* the end of the INT starting at i (i itself when no INT starts there)
IntEnd(s, i) == RunEnd(s, i, DIGIT)

DigitValue(c) == CHOOSE k \in 0..9 : DigitSeq[k + 1] = c

\* Python int(str) of a string of decimal digits
RECURSIVE int(_)
int(ds) ==
  IF ds = <<>> THEN 0
  ELSE 10 * int(SubSeq(ds, 1, Len(ds) - 1)) + DigitValue(ds[Len(ds)])

\* Python str(int)
RECURSIVE StrNat(_)
StrNat(n) ==
  IF n < 10 THEN <<DigitSeq[n + 1]>>
  ELSE StrNat(n \div 10) \o <<DigitSeq[(n % 10) + 1]>>

str(n) == IF n < 0 THEN <<"-">> \o StrNat(0 - n) ELSE StrNat(n)

(***************************************************************************)
(* The node dataclasses.                                                   *)
(***************************************************************************)
PriorityADD == 1
PriorityMUL == 2
PriorityPOW == 3
PriorityUNARY == 4
PriorityATOM == 5

IntDim(value, broadcastable) ==
  [type |-> "IntDim", value |-> value, broadcastable |-> broadcastable]

SingleDim(name, broadcastable, anonymous) ==
  [type |-> "SingleDim", name |-> name, broadcastable |-> broadcastable,
   anonymous |-> anonymous]

VariadicDim(name, anonymous, broadcastable) ==
  [type |-> "VariadicDim", name |-> name, anonymous |-> anonymous,
   broadcastable |-> broadcastable]

\* arguments is what the transformer stored: a list of nodes (islist) or, when
\* the arg_list rule was inlined, the one node itself (items = <<node>>)
FunctionDim(name, arguments) ==
  [type |-> "FunctionDim", name |-> name, arguments |-> arguments]

BinaryOpDim(op, left, right) ==
  [type |-> "BinaryOpDim", op |-> op, left |-> left, right |-> right]

NegDim(child) == [type |-> "NegDim", child |-> child]

ShapeSpec(dim_specs) == [type |-> "ShapeSpec", dim_specs |-> dim_specs]

\* OPERATORS: the priority of each operator symbol
OperatorPriority(symbol) ==
  IF symbol \in SUM_OP THEN PriorityADD
  ELSE IF symbol \in MUL_OP THEN PriorityMUL
  ELSE PriorityPOW

\* DimSpec.priority and its overrides
priority(node) ==
  IF node.type = "BinaryOpDim" THEN OperatorPriority(node.op)
  ELSE IF node.type = "NegDim" THEN PriorityUNARY
  ELSE PriorityATOM

(***************************************************************************)
(* ShapeSpecTransformer: the callbacks that build nodes from the children  *)
(* of a parse-tree node.                                                   *)
(***************************************************************************)
int_dim(args) == IntDim(int(args[1]), FALSE)

name_dim(args) == SingleDim(args[1], FALSE, FALSE)

anon_dim(args) == SingleDim(IF args # <<>> THEN args[1] ELSE None, FALSE, TRUE)

anon_var_dim(args) == VariadicDim(IF args # <<>> THEN args[1] ELSE None, TRUE, FALSE)

var_dim(args) == VariadicDim(args[1], FALSE, FALSE)

\* int(args[0]) raises ValueError exactly when the token is not all digits
broadcast_dim(args) ==
  IF \A k \in 1..Len(args[1]) : args[1][k] \in DIGIT
  THEN IntDim(int(args[1]), TRUE)
  ELSE SingleDim(args[1], TRUE, FALSE)

broadcast_var_dim(args) == VariadicDim(args[1], FALSE, TRUE)

binary_op(args) == BinaryOpDim(args[2], args[1], args[3])

neg(args) == NegDim(args[1])

\* the arg_list callback returns its children as a Python list
arg_list(args) == [islist |-> TRUE, items |-> args]

\* "?arg_list": with a single child the rule is inlined, the callback is not
\* called, and the child itself stands where the list would
ArgListTree(children) ==
  IF Len(children) = 1 THEN [islist |-> FALSE, items |-> children]
  ELSE arg_list(children)

func(args) == FunctionDim(args[1], args[2])

(***************************************************************************)
(* shape_parser: the grammar.  Each rule is an operator that, given the    *)
(* text and a start position, returns whether the rule matches there, the  *)
(* node the transformer builds for the match, and the position after it.   *)
(* The grammar is unambiguous and every choice is decided by the next      *)
(* characters, so the match is the one the Earley parser finds.            *)
(***************************************************************************)
NoNode == [type |-> "none"]

Match(node, pos) == [ok |-> TRUE, node |-> node, pos |-> pos]

NoMatch(pos) == [ok |-> FALSE, node |-> NoNode, pos |-> pos]

\* the result of an arg_list: the children collected so far
ArgsMatch(ok, items, pos) == [ok |-> ok, items |-> items, pos |-> pos]

RECURSIVE expr(_, _), term(_, _), unary(_, _), power(_, _), atom(_, _),
          arg_list_rule(_, _), arg_list_tail(_, _, _), arg_list_more(_, _, _)

\* var_dim: "*" NAME
var_dim_rule(s, i) ==
  IF At(s, i) = "*" /\ NameEnd(s, i + 1) > i + 1
  THEN Match(var_dim(<<SubSeq(s, i + 1, NameEnd(s, i + 1) - 1)>>), NameEnd(s, i + 1))
  ELSE NoMatch(i)

\* "l op r -> binary_op", given the matches of l and of r
Binary(l, op, r) ==
  IF r.ok THEN Match(binary_op(<<l.node, op, r.node>>), r.pos) ELSE r

\* the operator of set ops at position i (two characters before one), or <<>>
OpAt(s, i, ops) ==
  IF <<At(s, i), At(s, i + 1)>> \in ops THEN <<At(s, i), At(s, i + 1)>>
  ELSE IF <<At(s, i)>> \in ops THEN <<At(s, i)>>
  ELSE <<>>

\* ?expr: term | term SUM_OP expr -> binary_op
ExprRest(s, l) ==
  IF l.ok /\ OpAt(s, l.pos, SUM_OP) # <<>>
  THEN Binary(l, OpAt(s, l.pos, SUM_OP), expr(s, l.pos + 1))
  ELSE l

expr(s, i) == ExprRest(s, term(s, i))

\* a term whose right operand is read as an expr: '*' would bind no tighter
\* than '+'
TermRestLoose(s, l) ==
  IF l.ok /\ OpAt(s, l.pos, MUL_OP) # <<>>
  THEN Binary(l, OpAt(s, l.pos, MUL_OP), expr(s, l.pos + Len(OpAt(s, l.pos, MUL_OP))))
  ELSE l

\* ?term: unary | unary MUL_OP term -> binary_op
TermRest(s, l) ==
  IF l.ok /\ OpAt(s, l.pos, MUL_OP) # <<>>
  THEN Binary(l, OpAt(s, l.pos, MUL_OP), term(s, l.pos + Len(OpAt(s, l.pos, MUL_OP))))
  ELSE l

term(s, i) == TermRest(s, unary(s, i))

\* ?unary: power | "-" unary -> neg
Negated(c) == IF c.ok THEN Match(neg(<<c.node>>), c.pos) ELSE c

unary(s, i) == IF At(s, i) = "-" THEN Negated(unary(s, i + 1)) ELSE power(s, i)

\* a power whose right operand is an atom only
PowerRest_atom(s, l) ==
  IF l.ok /\ OpAt(s, l.pos, POW_OP) # <<>>
  THEN Binary(l, OpAt(s, l.pos, POW_OP), atom(s, l.pos + 2))
  ELSE l

\* ?power: atom | atom POW_OP unary -> binary_op
PowerRest(s, l) ==
  IF l.ok /\ OpAt(s, l.pos, POW_OP) # <<>>
  THEN Binary(l, OpAt(s, l.pos, POW_OP), unary(s, l.pos + 2))
  ELSE l

power(s, i) == PowerRest(s, atom(s, i))

\* "(" expr ")", given the match of expr
Parenthesized(s, e) ==
  IF e.ok /\ At(s, e.pos) = ")" THEN Match(e.node, e.pos + 1) ELSE NoMatch(e.pos)

\* FUNC "(" arg_list ")" -> func, given the match of arg_list
Call(s, word, a) ==
  IF a.ok /\ At(s, a.pos) = ")"
  THEN Match(func(<<word, ArgListTree(a.items)>>), a.pos + 1)
  ELSE NoMatch(a.pos)

\* ?atom: INT -> int_dim | NAME -> name_dim | "(" expr ")"
\*      | FUNC "(" arg_list ")" -> func
atom(s, i) ==
  IF At(s, i) \in DIGIT
  THEN Match(int_dim(<<SubSeq(s, i, IntEnd(s, i) - 1)>>), IntEnd(s, i))
  ELSE IF At(s, i) \in LETTER
  THEN IF At(s, NameEnd(s, i)) # "("
       THEN Match(name_dim(<<SubSeq(s, i, NameEnd(s, i) - 1)>>), NameEnd(s, i))
       ELSE IF SubSeq(s, i, NameEnd(s, i) - 1) \in FUNC
       THEN Call(s, SubSeq(s, i, NameEnd(s, i) - 1), arg_list_rule(s, NameEnd(s, i) + 1))
       ELSE NoMatch(NameEnd(s, i))
  ELSE IF At(s, i) = "("
  THEN Parenthesized(s, expr(s, i + 1))
  ELSE NoMatch(i)

\* (expr | var_dim)
Argument(s, i) == IF At(s, i) = "*" THEN var_dim_rule(s, i) ELSE expr(s, i)

\* the children collected so far, then the match a of one more argument, then
\* ("," (expr | var_dim))*
arg_list_more(s, items, a) ==
  IF a.ok THEN arg_list_tail(s, a.pos, Append(items, a.node))
  ELSE ArgsMatch(FALSE, items, a.pos)

arg_list_tail(s, i, items) ==
  IF At(s, i) = "," THEN arg_list_more(s, items, Argument(s, i + 1))
  ELSE ArgsMatch(TRUE, items, i)

\* an arg_list that may be a single expr
ArgListAnyArity(s, i, t) == t

\* an arg_list that starts with an expr has at least one more argument
ArgListArity(s, i, t) ==
  IF t.ok /\ At(s, i) # "*" /\ Len(t.items) < 2 THEN ArgsMatch(FALSE, t.items, t.pos)
  ELSE t

\* ?arg_list: expr ("," (expr | var_dim))+ | var_dim ("," (expr | var_dim))*
arg_list_rule(s, i) == ArgListArity(s, i, arg_list_more(s, <<>>, Argument(s, i)))

\* the optional NAME at i: its text (None when absent) and the position after
OptName(s, i) == SubSeq(s, i, NameEnd(s, i) - 1)

\* other_dim: "_" NAME? | "..." | "*_" NAME? | "#" NAME | "#" INT
\*          | "#*" NAME | "*#" NAME
other_dim(s, i) ==
  IF At(s, i) = "_"
  THEN Match(anon_dim(IF OptName(s, i + 1) = <<>> THEN <<>> ELSE <<OptName(s, i + 1)>>),
             NameEnd(s, i + 1))
  ELSE IF At(s, i) = "." /\ At(s, i + 1) = "." /\ At(s, i + 2) = "."
  THEN Match(anon_var_dim(<<>>), i + 3)
  ELSE IF At(s, i) = "*" /\ At(s, i + 1) = "_"
  THEN Match(anon_var_dim(IF OptName(s, i + 2) = <<>> THEN <<>> ELSE <<OptName(s, i + 2)>>),
             NameEnd(s, i + 2))
  ELSE IF At(s, i) = "#" /\ At(s, i + 1) \in DIGIT
  THEN Match(broadcast_dim(<<SubSeq(s, i + 1, IntEnd(s, i + 1) - 1)>>), IntEnd(s, i + 1))
  ELSE IF At(s, i) = "#" /\ NameEnd(s, i + 1) > i + 1
  THEN Match(broadcast_dim(<<OptName(s, i + 1)>>), NameEnd(s, i + 1))
  ELSE IF /\ \/ At(s, i) = "#" /\ At(s, i + 1) = "*"
             \/ At(s, i) = "*" /\ At(s, i + 1) = "#"
          /\ NameEnd(s, i + 2) > i + 2
  THEN Match(broadcast_var_dim(<<OptName(s, i + 2)>>), NameEnd(s, i + 2))
  ELSE NoMatch(i)

\* ?dim_spec: expr | var_dim | other_dim
dim_spec(s, i) ==
  IF At(s, i) \in {"_", ".", "#"} \/ (At(s, i) = "*" /\ At(s, i + 1) \in {"_", "#"})
  THEN other_dim(s, i)
  ELSE IF At(s, i) = "*" THEN var_dim_rule(s, i)
  ELSE expr(s, i)

RECURSIVE shape_spec_tail(_, _, _), shape_spec_more(_, _, _)

\* the dims collected so far, then the match d of one more dim_spec, then
\* (_WS_INLINE+ dim_spec)*
shape_spec_more(s, dims, d) ==
  IF d.ok THEN shape_spec_tail(s, d.pos, Append(dims, d.node))
  ELSE ArgsMatch(FALSE, dims, d.pos)

\* a tail that accepts the dims matched so far, whatever follows them
shape_spec_tail_prefix(s, i, dims) == ArgsMatch(TRUE, dims, i)

shape_spec_tail(s, i, dims) ==
  IF i > Len(s) THEN ArgsMatch(TRUE, dims, i)
  ELSE IF At(s, i) \notin WS_INLINE THEN ArgsMatch(FALSE, dims, i)
  ELSE shape_spec_more(s, dims, dim_spec(s, RunEnd(s, i, WS_INLINE)))

\* shape_spec: (_WS_INLINE* dim_spec)? (_WS_INLINE+ dim_spec)*
shape_spec_rule(s) ==
  IF s = <<>> THEN ArgsMatch(TRUE, <<>>, 1)
  ELSE shape_spec_more(s, <<>>, dim_spec(s, RunEnd(s, 1, WS_INLINE)))

shape_spec(args) == ShapeSpec(args)

(***************************************************************************)
(* Outcomes.  A call returns a value (kind "ok") or raises: kind is then   *)
(* the exception class, value is empty and message holds the parts of the  *)
(* exception's message.                                                    *)
(***************************************************************************)
NoMessage == [text |-> "", dim |-> <<>>, known |-> <<>>]

Return(value) == [kind |-> "ok", value |-> value, message |-> NoMessage]

Raise(kind, message) == [kind |-> kind, value |-> <<>>, message |-> message]

Message(text) == [text |-> text, dim |-> <<>>, known |-> <<>>]

\* parse_shape_spec: the ShapeSpec, or the parser's syntax error (a lark
\* exception, which is not a ShapeError)
Transformed(m) ==
  IF m.ok THEN Return(shape_spec(m.items))
  ELSE Raise("SyntaxError", Message("unexpected input"))

parse_shape_spec(spec) == Transformed(shape_spec_rule(spec))

(***************************************************************************)
(* __repr__ of the nodes.  The result is an outcome: FunctionDim.__repr__  *)
(* iterates over self.arguments, which raises TypeError when arguments is  *)
(* a node and not a list.                                                  *)
(***************************************************************************)
IntDim_repr(self) == (IF self.broadcastable THEN <<"_">> ELSE <<>>) \o str(self.value)

SingleDim_repr(self) ==
  (IF self.broadcastable THEN <<"#">> ELSE <<>>)
  \o (IF self.anonymous THEN <<"_">> ELSE <<>>)
  \o (IF self.name # None THEN self.name ELSE <<>>)

VariadicDim_repr(self) ==
  IF self.anonymous THEN <<".", ".", ".">>
  ELSE IF self.broadcastable THEN <<"*", "#">> \o self.name
  ELSE <<"*">> \o self.name

RECURSIVE repr(_), JoinReprs(_, _)

\* sep.join(repr(x) for x in items): the first repr that raises ends the join
JoinReprs(items, sep) ==
  IF items = <<>> THEN Return(<<>>)
  ELSE LET first == repr(Head(items)) IN
       IF first.kind # "ok" THEN first
       ELSE IF Len(items) = 1 THEN first
       ELSE LET rest == JoinReprs(Tail(items), sep) IN
            IF rest.kind # "ok" THEN rest
            ELSE Return(first.value \o sep \o rest.value)

FunctionDim_repr(self) ==
  IF ~self.arguments.islist
  THEN Raise("TypeError", Message("object is not iterable"))
  ELSE LET argl == JoinReprs(self.arguments.items, <<",">>) IN
       IF argl.kind # "ok" THEN argl
       ELSE Return(self.name \o <<"(">> \o argl.value \o <<")">>)

\* repr(operand), or "(" repr(operand) ")" unless own < the operand's priority
\* the operand in parentheses only when its priority is strictly lower
OperandRepr_strict(own, operand) ==
  LET r == repr(operand) IN
  IF r.kind # "ok" THEN r
  ELSE IF own <= priority(operand) THEN r
  ELSE Return(<<"(">> \o r.value \o <<")">>)

OperandRepr(own, operand) ==
  LET r == repr(operand) IN
  IF r.kind # "ok" THEN r
  ELSE IF own < priority(operand) THEN r
  ELSE Return(<<"(">> \o r.value \o <<")">>)

BinaryOpDim_repr(self) ==
  LET left_repr == OperandRepr(priority(self), self.left) IN
  IF left_repr.kind # "ok" THEN left_repr
  ELSE LET right_repr == OperandRepr(priority(self), self.right) IN
       IF right_repr.kind # "ok" THEN right_repr
       ELSE Return(left_repr.value \o self.op \o right_repr.value)

NegDim_repr(self) ==
  LET c == OperandRepr(priority(self), self.child) IN
  IF c.kind # "ok" THEN c ELSE Return(<<"-">> \o c.value)

ShapeSpec_repr(self) == JoinReprs(self.dim_specs, <<" ">>)

repr(self) ==
  CASE self.type = "IntDim" -> Return(IntDim_repr(self))
    [] self.type = "SingleDim" -> Return(SingleDim_repr(self))
    [] self.type = "VariadicDim" -> Return(VariadicDim_repr(self))
    [] self.type = "FunctionDim" -> FunctionDim_repr(self)
    [] self.type = "BinaryOpDim" -> BinaryOpDim_repr(self)
    [] self.type = "NegDim" -> NegDim_repr(self)
    [] self.type = "ShapeSpec" -> ShapeSpec_repr(self)

(***************************************************************************)
(* Python numbers.  An int is [k |-> "int", n |-> value, d |-> 1].  A      *)
(* float is [k |-> "float", n, d] standing for n/d in lowest terms; float  *)
(* rounding is not modelled.  A float the model cannot track (a power with *)
(* a fractional exponent) has d = 0.                                       *)
(***************************************************************************)
Int_(n) == [k |-> "int", n |-> n, d |-> 1]

Abs(n) == IF n < 0 THEN 0 - n ELSE n

RECURSIVE GCD(_, _)
GCD(a, b) == IF b = 0 THEN a ELSE GCD(b, a % b)

Float_(n, d) ==
  LET g == GCD(Abs(n), Abs(d))
      sgn == IF d < 0 THEN 0 - 1 ELSE 1
  IN [k |-> "float", n |-> sgn * (n \div g), d |-> sgn * (d \div g)]

Untracked == [k |-> "float", n |-> 0, d |-> 0]

IsTracked(x) == x.d # 0

BothInt(x, y) == x.k = "int" /\ y.k = "int"

\* floor(n / d) for d # 0
Floor(n, d) == IF d > 0 THEN n \div d ELSE (0 - n) \div (0 - d)

RECURSIVE IntPow(_, _)
IntPow(b, e) == IF e = 0 THEN 1 ELSE b * IntPow(b, e - 1)

ZeroDivisionError == Raise("ZeroDivisionError", Message("division by zero"))

add(x, y) ==
  IF ~IsTracked(x) \/ ~IsTracked(y) THEN Return(Untracked)
  ELSE IF BothInt(x, y) THEN Return(Int_(x.n + y.n))
  ELSE Return(Float_(x.n * y.d + y.n * x.d, x.d * y.d))

sub(x, y) ==
  IF ~IsTracked(x) \/ ~IsTracked(y) THEN Return(Untracked)
  ELSE IF BothInt(x, y) THEN Return(Int_(x.n - y.n))
  ELSE Return(Float_(x.n * y.d - y.n * x.d, x.d * y.d))

mul(x, y) ==
  IF ~IsTracked(x) \/ ~IsTracked(y) THEN Return(Untracked)
  ELSE IF BothInt(x, y) THEN Return(Int_(x.n * y.n))
  ELSE Return(Float_(x.n * y.n, x.d * y.d))

truediv(x, y) ==
  IF IsTracked(y) /\ y.n = 0 THEN ZeroDivisionError
  ELSE IF ~IsTracked(x) \/ ~IsTracked(y) THEN Return(Untracked)
  ELSE Return(Float_(x.n * y.d, x.d * y.n))

floordiv(x, y) ==
  IF IsTracked(y) /\ y.n = 0 THEN ZeroDivisionError
  ELSE IF ~IsTracked(x) \/ ~IsTracked(y) THEN Return(Untracked)
  ELSE IF BothInt(x, y) THEN Return(Int_(Floor(x.n, y.n)))
  ELSE Return(Float_(Floor(x.n * y.d, x.d * y.n), 1))

mod(x, y) ==
  IF IsTracked(y) /\ y.n = 0 THEN ZeroDivisionError
  ELSE IF ~IsTracked(x) \/ ~IsTracked(y) THEN Return(Untracked)
  ELSE IF BothInt(x, y) THEN Return(Int_(x.n - y.n * Floor(x.n, y.n)))
  ELSE LET q == Floor(x.n * y.d, x.d * y.n) IN
       Return(Float_(x.n * y.d - q * y.n * x.d, x.d * y.d))

pow(x, y) ==
  IF ~IsTracked(x) \/ ~IsTracked(y) THEN Return(Untracked)
  ELSE IF y.d # 1
  THEN IF x.n # 0 THEN Return(Untracked)
       ELSE IF y.n < 0 THEN ZeroDivisionError ELSE Return(Float_(0, 1))
  ELSE IF y.n >= 0
  THEN IF BothInt(x, y) THEN Return(Int_(IntPow(x.n, y.n)))
       ELSE Return(Float_(IntPow(x.n, y.n), IntPow(x.d, y.n)))
  ELSE IF x.n = 0 THEN ZeroDivisionError
  ELSE Return(Float_(IntPow(x.d, 0 - y.n), IntPow(x.n, 0 - y.n)))

\* SYMBOL_2_OPERATOR[symbol].fn(left, right)
OperatorFn(symbol, left, right) ==
  CASE symbol = <<"+">> -> add(left, right)
    [] symbol = <<"-">> -> sub(left, right)
    [] symbol = <<"*">> -> mul(left, right)
    [] symbol = <<"/">> -> truediv(left, right)
    [] symbol = <<"/", "/">> -> floordiv(left, right)
    [] symbol = <<"%">> -> mod(left, right)
    [] symbol = <<"*", "*">> -> pow(left, right)

\* x < y, for tracked numbers
Less(x, y) == x.n * y.d < y.n * x.d

\* the builtins sum, min, max and math.prod: a left-to-right reduction of the
\* values, from 0 (sum), 1 (prod) or the first value (min, max)
RECURSIVE Reduce(_, _, _)
Reduce(name, acc, vals) ==
  IF vals = <<>> THEN acc
  ELSE Reduce(name,
              CASE name = <<"s", "u", "m">> -> add(acc, Head(vals)).value
                [] name = <<"p", "r", "o", "d">> -> mul(acc, Head(vals)).value
                [] name = <<"m", "i", "n">> -> IF Less(Head(vals), acc) THEN Head(vals) ELSE acc
                [] name = <<"m", "a", "x">> -> IF Less(acc, Head(vals)) THEN Head(vals) ELSE acc,
              Tail(vals))

AnyUntracked(vals) == \E k \in 1..Len(vals) : ~IsTracked(vals[k])

\* NAME_2_FUNC with "prod" bound to sum
NAME_2_FUNC_ProdIsSum(name, vals) ==
  IF name \in {<<"m", "i", "n">>, <<"m", "a", "x">>} /\ vals = <<>>
  THEN Raise("ValueError", Message("arg is an empty sequence"))
  ELSE Return(Reduce(IF name = <<"p", "r", "o", "d">> THEN <<"s", "u", "m">> ELSE name,
                     IF name \in {<<"m", "i", "n">>, <<"m", "a", "x">>} THEN Head(vals)
                     ELSE Int_(0),
                     vals))

NAME_2_FUNC(name, vals) ==
  CASE name = <<"s", "u", "m">> -> Return(Reduce(name, Int_(0), vals))
    [] name = <<"p", "r", "o", "d">> -> Return(Reduce(name, Int_(1), vals))
    [] name \in {<<"m", "i", "n">>, <<"m", "a", "x">>} ->
         IF vals = <<>> THEN Raise("ValueError", Message("arg is an empty sequence"))
         ELSE IF AnyUntracked(vals) THEN Return(Untracked)
         ELSE Return(Reduce(name, Head(vals), Tail(vals)))

(***************************************************************************)
(* Memo: two dicts.  A dict is the sequence of its items in insertion      *)
(* order, each [key, value], with distinct keys.                           *)
(***************************************************************************)
Memo(single, variadic) == [single |-> single, variadic |-> variadic]

\* dict.keys()
Keys(dict) == [k \in 1..Len(dict) |-> dict[k].key]

\* key in dict
Has(dict, key) == \E k \in 1..Len(dict) : dict[k].key = key

\* dict[key], for a key in the dict
Get(dict, key) == dict[CHOOSE k \in 1..Len(dict) : dict[k].key = key].value

\* the characters in code-point order, for comparing str values
CharOrder ==
  DigitSeq \o
  <<"_", "a", "b", "c", "d", "h", "i", "m", "n", "o", "p", "r", "s", "u", "v", "w", "x">>

Ord(c) == CHOOSE k \in 1..Len(CharOrder) : CharOrder[k] = c

\* str.__lt__
RECURSIVE StrLess(_, _)
StrLess(a, b) ==
  IF b = <<>> THEN FALSE
  ELSE IF a = <<>> THEN TRUE
  ELSE IF Head(a) = Head(b) THEN StrLess(Tail(a), Tail(b))
  ELSE Ord(Head(a)) < Ord(Head(b))

\* sorted(strs): insertion of each element into the sorted prefix
RECURSIVE Insert(_, _), sorted(_)
Insert(x, strs) ==
  IF strs = <<>> THEN <<x>>
  ELSE IF StrLess(x, Head(strs)) THEN <<x>> \o strs
  ELSE <<Head(strs)>> \o Insert(x, Tail(strs))

\* the keys as they come, not sorted
unsorted(strs) == strs

sorted(strs) == IF strs = <<>> THEN <<>> ELSE Insert(Head(strs), sorted(Tail(strs)))

(***************************************************************************)
(* evaluate of the nodes.  The result is an outcome whose value is the     *)
(* returned tuple of numbers.                                              *)
(***************************************************************************)
ShapeError(text, self_repr, known) ==
  Raise("ShapeError", [text |-> text, dim |-> self_repr, known |-> known])

\* IntDim.evaluate without the broadcastable check
IntDim_evaluate_any(self, memo) == Return(<<Int_(self.value)>>)

IntDim_evaluate(self, memo) ==
  IF self.broadcastable
  THEN ShapeError("Cannot evaluate a broadcastable dim", IntDim_repr(self), <<>>)
  ELSE Return(<<Int_(self.value)>>)

\* SingleDim.evaluate without the anonymous check
SingleDim_evaluate_named(self, memo) ==
  IF self.broadcastable
  THEN ShapeError("Cannot evaluate a broadcastable dimension", SingleDim_repr(self), <<>>)
  ELSE IF ~Has(memo.single, self.name)
  THEN ShapeError("No value known", SingleDim_repr(self), sorted(Keys(memo.single)))
  ELSE Return(<<Int_(Get(memo.single, self.name))>>)

SingleDim_evaluate(self, memo) ==
  IF self.anonymous
  THEN ShapeError("Cannot evaluate anonymous dimension", SingleDim_repr(self), <<>>)
  ELSE IF self.broadcastable
  THEN ShapeError("Cannot evaluate a broadcastable dimension", SingleDim_repr(self), <<>>)
  ELSE IF ~Has(memo.single, self.name)
  THEN ShapeError("No value known", SingleDim_repr(self), sorted(Keys(memo.single)))
  ELSE Return(<<Int_(Get(memo.single, self.name))>>)

\* VariadicDim.evaluate that falls back on memo.single
VariadicDim_evaluate_either(self, memo) ==
  IF self.anonymous
  THEN ShapeError("Cannot evaluate anonymous dimension", VariadicDim_repr(self), <<>>)
  ELSE IF self.broadcastable
  THEN ShapeError("Cannot evaluate a broadcastable variadic dimension",
                  VariadicDim_repr(self), <<>>)
  ELSE IF Has(memo.variadic, self.name)
  THEN Return([k \in 1..Len(Get(memo.variadic, self.name)) |->
                 Int_(Get(memo.variadic, self.name)[k])])
  ELSE IF Has(memo.single, self.name)
  THEN Return(<<Int_(Get(memo.single, self.name))>>)
  ELSE ShapeError("No value known", VariadicDim_repr(self), sorted(Keys(memo.variadic)))

VariadicDim_evaluate(self, memo) ==
  IF self.anonymous
  THEN ShapeError("Cannot evaluate anonymous dimension", VariadicDim_repr(self), <<>>)
  ELSE IF self.broadcastable
  THEN ShapeError("Cannot evaluate a broadcastable variadic dimension",
                  VariadicDim_repr(self), <<>>)
  ELSE IF ~Has(memo.variadic, self.name)
  THEN ShapeError("No value known", VariadicDim_repr(self), sorted(Keys(memo.variadic)))
  ELSE LET t == Get(memo.variadic, self.name) IN
       Return([k \in 1..Len(t) |-> Int_(t[k])])

RECURSIVE evaluate(_, _), ChainEvaluate(_, _)

\* a chain that stops at the first exception and keeps the values before it
ChainEvaluate_partial(items, memo) ==
  IF items = <<>> THEN Return(<<>>)
  ELSE IF evaluate(Head(items), memo).kind # "ok" THEN Return(<<>>)
  ELSE Return(evaluate(Head(items), memo).value \o ChainEvaluate(Tail(items), memo).value)

\* itertools.chain.from_iterable(x.evaluate(memo) for x in items), consumed to
\* the end: the values in order, or the first exception raised
ChainEvaluate(items, memo) ==
  IF items = <<>> THEN Return(<<>>)
  ELSE LET first == evaluate(Head(items), memo) IN
       IF first.kind # "ok" THEN first
       ELSE LET rest == ChainEvaluate(Tail(items), memo) IN
            IF rest.kind # "ok" THEN rest
            ELSE Return(first.value \o rest.value)

FunctionDim_evaluate(self, memo) ==
  IF ~self.arguments.islist
  THEN Raise("TypeError", Message("object is not iterable"))
  ELSE LET vals == ChainEvaluate(self.arguments.items, memo) IN
       IF vals.kind # "ok" THEN vals
       ELSE LET r == NAME_2_FUNC(self.name, vals.value) IN
            IF r.kind # "ok" THEN r ELSE Return(<<r.value>>)

\* (x,) = t: the tuple has to have exactly one element
Unpack1(t) ==
  IF Len(t) = 1 THEN Return(t[1])
  ELSE IF Len(t) = 0 THEN Raise("ValueError", Message("not enough values to unpack"))
  ELSE Raise("ValueError", Message("too many values to unpack"))

BinaryOpDim_evaluate(self, memo) ==
  LET l == evaluate(self.left, memo) IN
  IF l.kind # "ok" THEN l
  ELSE LET left == Unpack1(l.value) IN
       IF left.kind # "ok" THEN left
       ELSE LET r == evaluate(self.right, memo) IN
            IF r.kind # "ok" THEN r
            ELSE LET right == Unpack1(r.value) IN
                 IF right.kind # "ok" THEN right
                 ELSE LET v == OperatorFn(self.op, left.value, right.value) IN
                      IF v.kind # "ok" THEN v ELSE Return(<<v.value>>)

\* unary minus of a number
\* unary minus that leaves the number as it is
Negative_same(x) == x

Negative(x) == [x EXCEPT !.n = 0 - x.n]

NegDim_evaluate(self, memo) ==
  LET c == evaluate(self.child, memo) IN
  IF c.kind # "ok" THEN c
  ELSE IF c.value = <<>> THEN Raise("IndexError", Message("tuple index out of range"))
  ELSE Return(<<Negative(c.value[1])>>)

\* ShapeSpec.evaluate that takes at most one value from each dim
RECURSIVE ChainFirsts(_, _)
ChainFirsts(items, memo) ==
  IF items = <<>> THEN Return(<<>>)
  ELSE IF evaluate(Head(items), memo).kind # "ok" THEN evaluate(Head(items), memo)
  ELSE IF ChainFirsts(Tail(items), memo).kind # "ok" THEN ChainFirsts(Tail(items), memo)
  ELSE Return((IF evaluate(Head(items), memo).value = <<>> THEN <<>>
               ELSE <<Head(evaluate(Head(items), memo).value)>>)
              \o ChainFirsts(Tail(items), memo).value)

ShapeSpec_evaluate_scalars(self, memo) == ChainFirsts(self.dim_specs, memo)

ShapeSpec_evaluate(self, memo) == ChainEvaluate(self.dim_specs, memo)

evaluate(self, memo) ==
  CASE self.type = "IntDim" -> IntDim_evaluate(self, memo)
    [] self.type = "SingleDim" -> SingleDim_evaluate(self, memo)
    [] self.type = "VariadicDim" -> VariadicDim_evaluate(self, memo)
    [] self.type = "FunctionDim" -> FunctionDim_evaluate(self, memo)
    [] self.type = "BinaryOpDim" -> BinaryOpDim_evaluate(self, memo)
    [] self.type = "NegDim" -> NegDim_evaluate(self, memo)
    [] self.type = "ShapeSpec" -> ShapeSpec_evaluate(self, memo)

(***************************************************************************)
(* The state machine: a caller parses a spec string, evaluates the parsed  *)
(* ShapeSpec against a memo, prints it, parses the printed text again and  *)
(* evaluates that.                                                         *)
(***************************************************************************)
VARIABLES
  pieces,    \* the dim (or argument) strings the caller wrote
  spec_str,  \* the spec string built from them
  memo,      \* the caller's Memo
  pc,        \* how far the caller got
  parsed,    \* outcome of parse_shape_spec(spec_str)
  result,    \* outcome of parsed.evaluate(memo)
  text,      \* outcome of repr(parsed)
  reparsed,  \* outcome of parse_shape_spec(repr(parsed))
  result2,   \* outcome of reparsed.evaluate(memo)
  memos,     \* the Memo objects of callers that evaluate from several threads
  calls,     \* per thread, the frame of its evaluate call
  log,       \* the (memo, outcome) pairs of the evaluate calls that ended
  walk,      \* the walk of one evaluate call over the tree, node by node
  checker_lookup_fns,  \* typeguard's list of checker lookup functions
  lookup_fn,           \* the function registered last
  individual_matches,  \* the ArraySpecMatch of the value with each member spec
  checked              \* outcome of the union checker

vars ==
  <<pieces, spec_str, memo, pc, parsed, result, text, reparsed, result2, memos, calls, log,
    walk, checker_lookup_fns, lookup_fn, individual_matches, checked>>

NotCalled == Raise("not called", NoMessage)

\* sep.join(strs)
RECURSIVE Join(_, _)
Join(strs, sep) ==
  IF strs = <<>> THEN <<>>
  ELSE IF Len(strs) = 1 THEN strs[1]
  ELSE strs[1] \o sep \o Join(Tail(strs), sep)

NoWalk == [agenda |-> <<>>, visited |-> <<>>]

\* the state of what the caller does not use: no walk, no registration, no
\* union check
Others ==
  /\ walk = NoWalk
  /\ checker_lookup_fns = <<>>
  /\ lookup_fn = None
  /\ individual_matches = <<>>
  /\ checked = NotCalled

\* the state before any call, for a caller holding these inputs
Start(ps, s, m) ==
  /\ pieces = ps
  /\ spec_str = s
  /\ memo = m
  /\ pc = "start"
  /\ parsed = NotCalled
  /\ result = NotCalled
  /\ text = NotCalled
  /\ reparsed = NotCalled
  /\ result2 = NotCalled
  /\ memos = <<>>
  /\ calls = <<>>
  /\ log = {}
  /\ Others

\* spec = parse_shape_spec(spec_str)
Parse ==
  /\ pc = "start"
  /\ parsed' = parse_shape_spec(spec_str)
  /\ pc' = "parsed"
  /\ UNCHANGED <<pieces, spec_str, memo, result, text, reparsed, result2, memos, calls, log,
                 walk, checker_lookup_fns, lookup_fn, individual_matches, checked>>

\* spec.evaluate(memo)
Evaluate ==
  /\ pc = "parsed"
  /\ parsed.kind = "ok"
  /\ result' = evaluate(parsed.value, memo)
  /\ pc' = "evaluated"
  /\ UNCHANGED <<pieces, spec_str, memo, parsed, text, reparsed, result2, memos, calls, log,
                 walk, checker_lookup_fns, lookup_fn, individual_matches, checked>>

\* repr(spec)
Repr ==
  /\ pc = "evaluated"
  /\ text' = repr(parsed.value)
  /\ pc' = "printed"
  /\ UNCHANGED <<pieces, spec_str, memo, parsed, result, reparsed, result2, memos, calls, log,
                 walk, checker_lookup_fns, lookup_fn, individual_matches, checked>>

\* parse_shape_spec(repr(spec))
Reparse ==
  /\ pc = "printed"
  /\ text.kind = "ok"
  /\ reparsed' = parse_shape_spec(text.value)
  /\ pc' = "reparsed"
  /\ UNCHANGED <<pieces, spec_str, memo, parsed, result, text, result2, memos, calls, log,
                 walk, checker_lookup_fns, lookup_fn, individual_matches, checked>>

\* parse_shape_spec(repr(spec)).evaluate(memo)
EvaluateReparsed ==
  /\ pc = "reparsed"
  /\ reparsed.kind = "ok"
  /\ result2' = evaluate(reparsed.value, memo)
  /\ pc' = "done"
  /\ UNCHANGED <<pieces, spec_str, memo, parsed, result, text, reparsed, memos, calls, log,
                 walk, checker_lookup_fns, lookup_fn, individual_matches, checked>>

Next ==
  \/ Parse
  \/ Evaluate
  \/ Repr
  \/ Reparse
  \/ EvaluateReparsed

Item(key, value) == [key |-> key, value |-> value]

(***************************************************************************)
(* Arithmetic expressions: every string of at most MaxLen tokens that the  *)
(* rules expr, term, unary, power and atom derive over the leaves a and b, *)
(* and function calls and int literals in each operand position.           *)
(***************************************************************************)
MaxLen == 6

Leaves == {<<"a">>, <<"b">>}

RECURSIVE GenExpr(_), GenTerm(_), GenUnary(_), GenPower(_), GenAtom(_)

GenAtom(n) ==
  IF n = 1 THEN Leaves
  ELSE IF n >= 3 THEN {<<"(">> \o e \o <<")">> : e \in GenExpr(n - 2)}
  ELSE {}

GenPower(n) ==
  GenAtom(n) \cup
  UNION {{a \o op \o u : a \in GenAtom(i), op \in POW_OP, u \in GenUnary(n - 1 - i)} :
         i \in 1..(n - 2)}

GenUnary(n) ==
  IF n <= 0 THEN {}
  ELSE GenPower(n) \cup {<<"-">> \o u : u \in GenUnary(n - 1)}

GenTerm(n) ==
  GenUnary(n) \cup
  UNION {{u \o op \o t : u \in GenUnary(i), op \in MUL_OP, t \in GenTerm(n - 1 - i)} :
         i \in 1..(n - 2)}

GenExpr(n) ==
  IF n <= 0 THEN {}
  ELSE GenTerm(n) \cup
       UNION {{t \o op \o e : t \in GenTerm(i), op \in SUM_OP, e \in GenExpr(n - 1 - i)} :
              i \in 1..(n - 2)}

\* int literals and function calls as operands
OtherAtoms ==
  {<<"2">>, <<"1", "0">>,
   <<"m", "i", "n", "(", "a", ",", "b", ")">>,
   <<"s", "u", "m", "(", "a", ",", "*", "v", ")">>,
   <<"p", "r", "o", "d", "(", "*", "v", ",", "a", "-", "b", ")">>,
   <<"m", "i", "n", "(", "*", "v", ",", "*", "v", ")">>}

OtherExprs ==
  UNION {{x, <<"-">> \o x, <<"(">> \o x \o <<")">>, x \o <<"*", "*", "b">>,
          <<"a", "-">> \o x, x \o <<"/", "/", "b">>} : x \in OtherAtoms}

ExprStrings ==
  UNION {GenExpr(n) : n \in 1..MaxLen} \cup OtherExprs
  \cup {<<"a", "*", "*", "b", "*", "*", "c">>}

ExprMemos ==
  {Memo(<<Item(<<"a">>, 2), Item(<<"b">>, 1), Item(<<"c">>, 2)>>,
        <<Item(<<"v">>, <<4, 1>>)>>),
   Memo(<<Item(<<"b">>, 2), Item(<<"a">>, 1), Item(<<"c">>, 0)>>,
        <<Item(<<"v">>, <<3>>)>>),
   Memo(<<Item(<<"a">>, 0), Item(<<"b">>, 2), Item(<<"c">>, 1)>>,
        <<Item(<<"v">>, <<>>)>>)}

InitExpr == \E s \in ExprStrings, m \in ExprMemos : Start(<<s>>, s, m)

SpecExpr == InitExpr /\ [][Next]_vars

(***************************************************************************)
(* Precedence: a, b and c joined by '+' and '*', without parentheses and   *)
(* with either pair parenthesized, under every binding of a, b and c in    *)
(* -MaxVal..MaxVal.                                                        *)
(***************************************************************************)
MaxVal == 2

PrecOps == {<<"+">>, <<"*">>}

PrecStrings ==
  UNION {{<<"a">> \o o1 \o <<"b">> \o o2 \o <<"c">>,
          <<"(", "a">> \o o1 \o <<"b", ")">> \o o2 \o <<"c">>,
          <<"a">> \o o1 \o <<"(", "b">> \o o2 \o <<"c", ")">>} : o1 \in PrecOps, o2 \in PrecOps}
  \cup {<<"a", "/", "/", "b", "/", "/", "c">>, <<"a", "%", "b", "*", "c">>,
        <<"a", "/", "/", "b", "*", "c">>}

PrecMemos ==
  {Memo(<<Item(<<"a">>, x), Item(<<"b">>, y), Item(<<"c">>, z)>>, <<>>) :
   x \in (0 - MaxVal)..MaxVal, y \in (0 - MaxVal)..MaxVal, z \in (0 - MaxVal)..MaxVal}

InitPrec == \E s \in PrecStrings, m \in PrecMemos : Start(<<s>>, s, m)

SpecPrec == InitPrec /\ [][Next]_vars

(***************************************************************************)
(* Function calls: each of min, max, sum and prod applied to 1..MaxArgs    *)
(* arguments, each an expression (a, 3, a-1) or a variadic dim, *b or *c.  *)
(***************************************************************************)
MaxArgs == 3

ArgForms == {<<"a">>, <<"3">>, <<"a", "-", "1">>, <<"*", "b">>, <<"*", "c">>}

\* the sequences of 1..n elements of set S
RECURSIVE SeqsUpTo(_, _)
SeqsUpTo(S, n) ==
  IF n = 0 THEN {}
  ELSE {<<x>> : x \in S} \cup SeqsUpTo(S, n - 1) \cup
       {Append(q, x) : q \in SeqsUpTo(S, n - 1), x \in S}

CallString(f, args) == f \o <<"(">> \o Join(args, <<",">>) \o <<")">>

FuncMemos ==
  {Memo(<<Item(<<"a">>, x)>>, <<Item(<<"b">>, y), Item(<<"c">>, z)>>) :
   x \in {1, 4}, y \in {<<>>, <<2, 3>>, <<5>>}, z \in {<<>>, <<1>>}}

InitFunc ==
  \E f \in FUNC, args \in SeqsUpTo(ArgForms, MaxArgs), m \in FuncMemos :
    Start(args, CallString(f, args), m)

SpecFunc == InitFunc /\ [][Next]_vars

(***************************************************************************)
(* Shapes: specs of 0..MaxDims dims separated by one space, each a scalar  *)
(* dim (a name, an int, a negation, a binary op, a function call) or a     *)
(* variadic dim; a, h, *b and *c are bound, d, x and *d are not.            *)
(***************************************************************************)
MaxDims == 2

ShapeDimForms ==
  {<<"h">>, <<"3">>, <<"d">>, <<"-", "a">>, <<"a", "+", "1">>,
   <<"s", "u", "m", "(", "a", ",", "*", "b", ")">>, <<"*", "b">>, <<"*", "c">>,
   <<"*", "d">>, <<"-", "d">>, <<"x", "-", "d">>,
   <<"s", "u", "m", "(", "a", ",", "*", "d", ")">>,
   <<"s", "u", "m", "(", "x", ",", "d", ")">>}

ShapeMemos ==
  {Memo(<<Item(<<"h">>, x), Item(<<"a">>, 6)>>, <<Item(<<"b">>, y), Item(<<"c">>, z)>>) :
   x \in {4}, y \in {<<>>, <<2, 3>>, <<5>>}, z \in {<<>>, <<1>>, <<7, 7, 7>>}}

InitShape ==
  \E dims \in {<<>>} \cup SeqsUpTo(ShapeDimForms, MaxDims), m \in ShapeMemos :
    Start(dims, Join(dims, <<" ">>), m)

SpecShape == InitShape /\ [][Next]_vars

(***************************************************************************)
(* Dims: every spelling of a dim over the names a and ab, alone or next to *)
(* another dim, under memos whose dicts hold up to two of the keys a, ab   *)
(* and b in either insertion order.                                        *)
(***************************************************************************)
DimNames == {<<"a">>, <<"a", "b">>}

NamedDimForms == {n : n \in DimNames} \cup {<<"*">> \o n : n \in DimNames}

AnonDimForms ==
  {<<"_">>, <<".", ".", ".">>, <<"*", "_">>}
  \cup {<<"_">> \o n : n \in DimNames} \cup {<<"*", "_">> \o n : n \in DimNames}

BroadcastDimForms ==
  {<<"#", "3">>, <<"#", "1", "0">>}
  \cup {<<"#">> \o n : n \in DimNames}
  \cup {<<"#", "*">> \o n : n \in DimNames} \cup {<<"*", "#">> \o n : n \in DimNames}

DimForms == NamedDimForms \cup AnonDimForms \cup BroadcastDimForms \cup {<<"3">>}

Neighbours == {<<"b">>, <<"*", "a">>, <<"7">>}

DimSpecs ==
  {<<f>> : f \in DimForms}
  \cup {<<f, n>> : f \in DimForms, n \in Neighbours}
  \cup {<<n, f>> : f \in DimForms, n \in Neighbours}

MemoKeys == {<<"a">>, <<"a", "b">>, <<"b">>}

\* the orders in which a dict can hold up to two of the keys
KeyOrders == {<<>>} \cup {<<k>> : k \in MemoKeys}
             \cup {o \in MemoKeys \X MemoKeys : o[1] # o[2]}

SingleValue(key) == Len(key) + Ord(key[Len(key)])

VariadicValue(key) == IF key = <<"b">> THEN <<>> ELSE <<Len(key), 5>>

DimMemos ==
  {Memo([k \in 1..Len(ks) |-> Item(ks[k], SingleValue(ks[k]))],
        [k \in 1..Len(kv) |-> Item(kv[k], VariadicValue(kv[k]))]) :
   ks \in KeyOrders, kv \in {<<>>, <<<<"a">>>>, <<<<"b">>, <<"a", "b">>>>, <<<<"b">>, <<"a">>>>}}

InitDims == \E dims \in DimSpecs, m \in DimMemos : Start(dims, Join(dims, <<" ">>), m)

SpecDims == InitDims /\ [][Next]_vars

(***************************************************************************)
(* Nodes built by the caller: the dataclasses are public, so a BinaryOpDim *)
(* or a NegDim can hold any DimSpec as operand, also a variadic dim, which *)
(* the grammar never puts there.                                           *)
(***************************************************************************)
OperandNodes ==
  {VariadicDim(<<"b">>, FALSE, FALSE), VariadicDim(<<"c">>, FALSE, FALSE),
   IntDim(3, FALSE), SingleDim(<<"a">>, FALSE, FALSE)}

BuiltNodes ==
  {BinaryOpDim(op, l, r) : op \in SUM_OP \cup MUL_OP \cup POW_OP,
                           l \in OperandNodes, r \in OperandNodes}
  \cup {NegDim(c) : c \in OperandNodes}

InitNodes == \E n \in BuiltNodes, m \in FuncMemos : Start(<<n>>, <<>>, m)

\* spec = ShapeSpec(node)
Construct ==
  /\ pc = "start"
  /\ parsed' = Return(ShapeSpec(pieces))
  /\ pc' = "parsed"
  /\ UNCHANGED <<pieces, spec_str, memo, result, text, reparsed, result2, memos, calls, log,
                 walk, checker_lookup_fns, lookup_fn, individual_matches, checked>>

NextNodes ==
  \/ Construct
  \/ Evaluate

SpecNodes == InitNodes /\ [][NextNodes]_vars

(***************************************************************************)
(* Malformed specs: well-formed leading dims followed by a last dim that   *)
(* the grammar derives (GoodDims) or does not derive (BadDims).            *)
(***************************************************************************)
BadDims ==
  {<<"m", "i", "n", "(", "a", ")">>, <<"a", "+">>, <<"+", "a">>, <<"~", "a">>,
   <<"b", ")">>, <<"1", "a", "b", "c", "_">>, <<"_", "_">>, <<"(", "a">>,
   <<"a", "*", "*">>, <<"s", "u", "m", "(", ")">>, <<"a", ",", "b">>,
   <<"*", "3">>, <<"#">>, <<"*">>, <<"a", "#", "b">>, <<"-">>}

GoodDims ==
  {<<"a">>, <<"m", "i", "n", "(", "a", ",", "b", ")">>, <<"-", "a">>,
   <<"a", "+", "-", "b">>, <<"_", "a">>, <<".", ".", ".">>, <<"#", "3">>,
   <<"a", "b", "c", "_", "1">>}

InitSyntax ==
  \E leading \in {<<>>, <<<<"a">>>>, <<<<"*", "b">>>>, <<<<"a", "+", "1">>, <<"3">>>>},
     last \in BadDims \cup GoodDims :
    Start(Append(leading, last), Join(Append(leading, last), <<" ">>),
          Memo(<<Item(<<"a">>, 1), Item(<<"b">>, 2)>>, <<Item(<<"b">>, <<2, 3>>)>>))

SpecSyntax == InitSyntax /\ [][Next]_vars

(***************************************************************************)
(* Concurrent and repeated evaluation: Threads threads evaluate the one    *)
(* parsed ShapeSpec, each up to MaxCalls times, each call against one of   *)
(* the Memo objects.  A call is a frame (the memo argument, the position   *)
(* of the chain in dim_specs, the values collected so far); a step of a    *)
(* thread evaluates one dim, and the steps of the threads interleave.      *)
(***************************************************************************)
Threads == 2

MaxCalls == 2

CallSpecs ==
  {<<"*", "b", " ", "h">>, <<"h", " ", "a", "+", "1">>,
   <<"s", "u", "m", "(", "a", ",", "*", "b", ")", " ", "-", "h">>}

InitCalls ==
  \E s \in CallSpecs :
    /\ pieces = <<s>> /\ spec_str = s /\ pc = "start"
    /\ memo = Memo(<<>>, <<>>)
    /\ parsed = NotCalled /\ result = NotCalled /\ text = NotCalled
    /\ reparsed = NotCalled /\ result2 = NotCalled
    /\ memos = <<Memo(<<Item(<<"h">>, 4), Item(<<"a">>, 6)>>, <<Item(<<"b">>, <<2, 3>>)>>),
                 Memo(<<Item(<<"h">>, 5)>>, <<Item(<<"b">>, <<5>>)>>)>>
    /\ calls = [t \in 1..Threads |-> [memo |-> 0, pos |-> 0, acc |-> <<>>,
                                      out |-> NotCalled, n |-> 0]]
    /\ log = {}
    /\ Others

\* the memo of the first caller, whichever thread asks
MemoOf_first(t) == memos[1]

\* the memo argument of the call of thread t
MemoOf(t) == memos[calls[t].memo]

\* a new call that goes on from the values of the thread's previous call
NoValues_stale(t) == calls[t].acc

\* the values a new call has collected: none
NoValues(t) == <<>>

\* thread t calls spec.evaluate(memos[i])
CallEvaluate(t) ==
  /\ pc = "parsed"
  /\ parsed.kind = "ok"
  /\ calls[t].pos = 0
  /\ calls[t].n < MaxCalls
  /\ \E i \in 1..Len(memos) :
       calls' = [calls EXCEPT ![t] = [memo |-> i, pos |-> 1, acc |-> NoValues(t),
                                      out |-> NotCalled, n |-> calls[t].n + 1]]
  /\ UNCHANGED <<pieces, spec_str, memo, pc, parsed, result, text, reparsed, result2,
                 memos, log,
                 walk, checker_lookup_fns, lookup_fn, individual_matches, checked>>

\* the frame of thread t after the outcome r of evaluating the dim at its
\* position: the call ends with the exception, or goes on with the values
AfterDim(t, r) ==
  IF r.kind # "ok" THEN [calls[t] EXCEPT !.pos = 0, !.out = r]
  ELSE [calls[t] EXCEPT !.pos = @ + 1, !.acc = @ \o r.value]

\* one step of the chain in the call of thread t: the tuple is returned when
\* the dims are exhausted, else the next dim is evaluated
Step(t) ==
  /\ calls[t].pos >= 1
  /\ calls' = [calls EXCEPT ![t] =
                 IF calls[t].pos > Len(parsed.value.dim_specs)
                 THEN [calls[t] EXCEPT !.pos = 0, !.out = Return(calls[t].acc)]
                 ELSE AfterDim(t, evaluate(parsed.value.dim_specs[calls[t].pos], MemoOf(t)))]
  /\ log' = IF calls'[t].pos = 0 THEN log \cup {<<calls[t].memo, calls'[t].out>>} ELSE log
  /\ UNCHANGED <<pieces, spec_str, memo, pc, parsed, result, text, reparsed, result2, memos,
                 walk, checker_lookup_fns, lookup_fn, individual_matches, checked>>

NextCalls ==
  \/ Parse
  \/ \E t \in 1..Threads : CallEvaluate(t)
  \/ \E t \in 1..Threads : Step(t)

SpecCalls == InitCalls /\ [][NextCalls]_vars

(***************************************************************************)
(* One evaluate call followed node by node.  evaluate of a node calls      *)
(* evaluate of its children in order and then computes its own value; an   *)
(* exception ends the call.  The agenda holds what the call still has to   *)
(* do: enter a node, or leave it with its value.  A node is named by its   *)
(* path from the ShapeSpec.                                                *)
(***************************************************************************)
\* the nodes whose evaluate the evaluate of node calls, in calling order
Children(node) ==
  CASE node.type = "ShapeSpec" -> node.dim_specs
    [] node.type = "FunctionDim" ->
         IF node.arguments.islist THEN node.arguments.items ELSE <<>>
    [] node.type = "BinaryOpDim" -> <<node.left, node.right>>
    [] node.type = "NegDim" -> <<node.child>>
    [] OTHER -> <<>>

RECURSIVE NodeAt(_, _)
NodeAt(node, path) ==
  IF path = <<>> THEN node ELSE NodeAt(Children(node)[Head(path)], Tail(path))

Enter(path) == [op |-> "enter", path |-> path]

Leave(path) == [op |-> "leave", path |-> path]

\* an agenda that enters every child twice
AfterEnter_twice(path, node, rest) ==
  [k \in 1..Len(Children(node)) |-> Enter(Append(path, k))]
  \o [k \in 1..Len(Children(node)) |-> Enter(Append(path, k))]
  \o <<Leave(path)>> \o rest

\* the agenda once the node at path is entered: its children, then its own
\* value, then what was left to do
AfterEnter(path, node, rest) ==
  [k \in 1..Len(Children(node)) |-> Enter(Append(path, k))] \o <<Leave(path)>> \o rest

InitWalk ==
  \E dims \in SeqsUpTo(ShapeDimForms, MaxDims),
     m \in {x \in ShapeMemos : Get(x.variadic, <<"c">>) = <<1>>} :
    Start(dims, Join(dims, <<" ">>), m)

\* spec.evaluate(memo) is called
StartWalk ==
  /\ pc = "parsed"
  /\ parsed.kind = "ok"
  /\ pc' = "walking"
  /\ walk' = [agenda |-> <<Enter(<<>>)>>, visited |-> <<>>]
  /\ UNCHANGED <<pieces, spec_str, memo, parsed, result, text, reparsed, result2,
                 memos, calls, log, checker_lookup_fns, lookup_fn, individual_matches,
                 checked>>

\* the call leaves a node with the outcome r of the node's evaluate: an
\* exception, or the value of the ShapeSpec, ends the call
LeaveNode(r) ==
  IF r.kind # "ok" \/ Len(walk.agenda) = 1
  THEN /\ pc' = "evaluated"
       /\ result' = r
       /\ walk' = [walk EXCEPT !.agenda = <<>>]
  ELSE /\ walk' = [walk EXCEPT !.agenda = Tail(@)]
       /\ UNCHANGED <<pc, result>>

\* the next thing the call does
WalkStep ==
  /\ pc = "walking"
  /\ IF Head(walk.agenda).op = "enter"
     THEN /\ walk' = [agenda |-> AfterEnter(Head(walk.agenda).path,
                                            NodeAt(parsed.value, Head(walk.agenda).path),
                                            Tail(walk.agenda)),
                      visited |-> Append(walk.visited, Head(walk.agenda).path)]
          /\ UNCHANGED <<pc, result>>
     ELSE LeaveNode(evaluate(NodeAt(parsed.value, Head(walk.agenda).path), memo))
  /\ UNCHANGED <<pieces, spec_str, memo, parsed, text, reparsed, result2,
                 memos, calls, log, checker_lookup_fns, lookup_fn, individual_matches,
                 checked>>

NextWalk ==
  \/ Parse
  \/ StartWalk
  \/ WalkStep

\* the call runs on one thread, which keeps running
SpecWalk == InitWalk /\ [][NextWalk]_vars /\ WF_vars(StartWalk) /\ WF_vars(WalkStep)

(***************************************************************************)
(* Registration of checker lookup functions.  A function is its            *)
(* __qualname__ and the copy of the module it was loaded from.             *)
(***************************************************************************)
MaxCopies == 2

QualNames ==
  {"_array_spec_checker_lookup", "_dataclass_checker_lookup", "builtin_checker_lookup"}

Fns == [qualname : QualNames, copy : 1..MaxCopies]

\* for i, f in enumerate(checker_lookup_fns): the first i whose f has the
\* qualname (0 when the loop ends without break)
RECURSIVE FirstWithQualname(_, _, _)
FirstWithQualname(fns, qualname, i) ==
  IF i > Len(fns) THEN 0
  ELSE IF fns[i].qualname = qualname THEN i
  ELSE FirstWithQualname(fns, qualname, i + 1)

\* a registration that always prepends
add_custom_checker_lookup_fn_prepend(fns, fn) == <<fn>> \o fns

\* the list after add_custom_checker_lookup_fn(lookup_fn)
add_custom_checker_lookup_fn(fns, fn) ==
  IF FirstWithQualname(fns, fn.qualname, 1) # 0
  THEN [fns EXCEPT ![FirstWithQualname(fns, fn.qualname, 1)] = fn]
  ELSE <<fn>> \o fns

\* typeguard's list when the module is loaded: any list of up to two functions
InitRegister ==
  /\ pieces = <<>> /\ spec_str = <<>> /\ pc = "start"
  /\ memo = Memo(<<>>, <<>>)
  /\ parsed = NotCalled /\ result = NotCalled /\ text = NotCalled
  /\ reparsed = NotCalled /\ result2 = NotCalled
  /\ memos = <<>> /\ calls = <<>> /\ log = {}
  /\ walk = NoWalk
  /\ checker_lookup_fns \in {<<>>} \cup {<<f>> : f \in Fns} \cup (Fns \X Fns)
  /\ lookup_fn = None
  /\ individual_matches = <<>>
  /\ checked = NotCalled

\* add_custom_checker_lookup_fn(fn)
Register ==
  \E fn \in Fns :
    /\ checker_lookup_fns' = add_custom_checker_lookup_fn(checker_lookup_fns, fn)
    /\ lookup_fn' = fn
    /\ UNCHANGED <<pieces, spec_str, memo, pc, parsed, result, text, reparsed, result2,
                   memos, calls, log, walk, individual_matches, checked>>

SpecRegister == InitRegister /\ [][Register]_vars

(***************************************************************************)
(* The checker of a union of array types.  An ArraySpecMatch is what its   *)
(* properties read of the value and the array_spec: the two isinstance     *)
(* answers and array_spec.dtypes, each entry of which is a str or a        *)
(* re.Pattern that equals or matches the value's dtype or not, or an       *)
(* object of another type.                                                 *)
(***************************************************************************)
MaxSpecs == 2

MaxDtypes == 2

_any_dtype == [any |-> TRUE, items |-> <<>>]

DtypeEntries ==
  [kind : {"str", "Pattern"}, matches : BOOLEAN] \cup {[kind |-> "other", matches |-> FALSE]}

DtypeSpecs ==
  {_any_dtype} \cup
  {[any |-> FALSE, items |-> q] : q \in {<<>>} \cup SeqsUpTo(DtypeEntries, MaxDtypes)}

\* ArraySpecMatch.type_correct
type_correct(m) == m.isinstance_array_type

\* the for loop of dtype_correct from entry i on
RECURSIVE dtype_loop(_, _)
dtype_loop(dtypes, i) ==
  IF i > Len(dtypes) THEN Return(FALSE)
  ELSE IF dtypes[i].kind \in {"str", "Pattern"}
       THEN IF dtypes[i].matches THEN Return(TRUE) ELSE dtype_loop(dtypes, i + 1)
       ELSE Raise("TypeError", Message("got unsupported dtype spec"))

\* ArraySpecMatch.dtype_correct
dtype_correct(m) ==
  IF m.dtypes.any THEN Return(TRUE) ELSE dtype_loop(m.dtypes.items, 1)

\* ArraySpecMatch.all_correct
all_correct(m) == m.isinstance_array_spec

\* a shape check that no value fails
shape_correct_alone(m) == TRUE

\* ArraySpecMatch.shape_correct
shape_correct(m) == all_correct(m)

\* ArraySpecMatch.is_interesting, where dtype_correct returns
is_interesting(m) ==
  IF ~type_correct(m) THEN dtype_correct(m).value
  ELSE IF ~dtype_correct(m).value /\ ~shape_correct(m) THEN FALSE
  ELSE TRUE

\* any(m.dtype_correct for m in individual_matches) from match i on
RECURSIVE any_dtype_correct(_, _)
any_dtype_correct(ms, i) ==
  IF i > Len(ms) THEN Return(FALSE)
  ELSE IF dtype_correct(ms[i]).kind # "ok" THEN dtype_correct(ms[i])
  ELSE IF dtype_correct(ms[i]).value THEN Return(TRUE)
  ELSE any_dtype_correct(ms, i + 1)

\* the last raise of the checker, with the interesting matches
fail_messages(ms) ==
  IF \E i \in 1..Len(ms) : dtype_correct(ms[i]).kind # "ok"
  THEN Raise("TypeError", Message("got unsupported dtype spec"))
  ELSE Raise("TypeCheckError",
             [text |-> "which did not match any of", dim |-> <<>>,
              known |-> SelectSeq(ms, is_interesting)])

TypeCheckError(msg) == Raise("TypeCheckError", Message(msg))

\* _custom_array_type_union_checker(value, origin_type, args, memo)
_custom_array_type_union_checker(ms) ==
  IF \E i \in 1..Len(ms) : all_correct(ms[i]) THEN Return(None)
  ELSE IF ~ \E i \in 1..Len(ms) : type_correct(ms[i])
  THEN TypeCheckError("which is none of")
  ELSE IF any_dtype_correct(ms, 1).kind # "ok" THEN any_dtype_correct(ms, 1)
  ELSE IF ~any_dtype_correct(ms, 1).value
  THEN TypeCheckError("which is not dtype-compatible with")
  ELSE IF ~ \E i \in 1..Len(ms) : shape_correct(ms[i])
  THEN TypeCheckError("which is not shape-compatible with")
  ELSE fail_messages(ms)

\* the matches of a value: isinstance(value, array_spec) reads the array type
\* first and the dtypes only where the array type fits; it holds only where
\* both fit, and it answers only where it reads no entry of another type
ArraySpecMatches ==
  {m \in [isinstance_array_type : BOOLEAN, dtypes : DtypeSpecs,
          isinstance_array_spec : BOOLEAN] :
     /\ m.isinstance_array_type => dtype_correct(m).kind = "ok"
     /\ m.isinstance_array_spec =>
          /\ m.isinstance_array_type
          /\ dtype_correct(m).kind = "ok"
          /\ dtype_correct(m).value}

InitUnion ==
  /\ pieces = <<>> /\ spec_str = <<>> /\ pc = "start"
  /\ memo = Memo(<<>>, <<>>)
  /\ parsed = NotCalled /\ result = NotCalled /\ text = NotCalled
  /\ reparsed = NotCalled /\ result2 = NotCalled
  /\ memos = <<>> /\ calls = <<>> /\ log = {}
  /\ walk = NoWalk
  /\ checker_lookup_fns = <<>>
  /\ lookup_fn = None
  /\ individual_matches \in SeqsUpTo(ArraySpecMatches, MaxSpecs)
  /\ checked = NotCalled

\* typeguard calls the checker on the value
CheckUnion ==
  /\ pc = "start"
  /\ pc' = "checked"
  /\ checked' = _custom_array_type_union_checker(individual_matches)
  /\ UNCHANGED <<pieces, spec_str, memo, parsed, result, text, reparsed, result2,
                 memos, calls, log, walk, checker_lookup_fns, lookup_fn,
                 individual_matches>>

SpecUnion == InitUnion /\ [][CheckUnion]_vars

(***************************************************************************)
(* Properties of arithmetic expressions (SpecExpr).                        *)
(***************************************************************************)
Printed == pc \in {"printed", "reparsed", "done"}

Reparsed == pc \in {"reparsed", "done"}

Evaluated == pc \in {"evaluated", "printed", "reparsed", "done"}

\* C1: the string form of a parsed arithmetic expression parses to a tree
\* structurally equal to the parsed expression, and both evaluate to the same
\* result against the memo.
C1_ExprRoundTrip ==
  /\ Printed => text.kind = "ok"
  /\ Reparsed => reparsed = parsed
  /\ pc = "done" => result2 = result

(***************************************************************************)
(* Properties of precedence (SpecPrec).                                    *)
(***************************************************************************)
\* the bindings of a, b and c in the memo of SpecPrec
ValA == memo.single[1].value
ValB == memo.single[2].value
ValC == memo.single[3].value

\* C3: 'a+b*c' evaluates to (a + (b*c),), 'a*b+c' to ((a*b) + c,) and
\* '(a+b)*c' to ((a+b)*c,), for all bindings of a, b and c: '*' binds tighter
\* than '+', and parentheses override that.
C3_Precedence ==
  /\ pc # "start" => parsed.kind = "ok"
  /\ Evaluated =>
       /\ spec_str = <<"a", "+", "b", "*", "c">> =>
            result = Return(<<Int_(ValA + (ValB * ValC))>>)
       /\ spec_str = <<"a", "*", "b", "+", "c">> =>
            result = Return(<<Int_((ValA * ValB) + ValC)>>)
       /\ spec_str = <<"(", "a", "+", "b", ")", "*", "c">> =>
            result = Return(<<Int_((ValA + ValB) * ValC)>>)
       /\ spec_str = <<"a", "*", "(", "b", "+", "c", ")">> =>
            result = Return(<<Int_(ValA * (ValB + ValC))>>)
       /\ spec_str = <<"(", "a", "*", "b", ")", "+", "c">> =>
            result = Return(<<Int_((ValA * ValB) + ValC)>>)
       /\ spec_str = <<"a", "+", "(", "b", "*", "c", ")">> =>
            result = Return(<<Int_(ValA + (ValB * ValC))>>)

\* 'a+b*c' and '(a+b)*c' evaluated under a=1, b=2, c=2, where the two
\* groupings differ (5 and 6)
C3_Witness ==
  /\ pc = "evaluated"
  /\ ValA = 1 /\ ValB = 2 /\ ValC = 2
  /\ spec_str = <<"a", "+", "b", "*", "c">>
  /\ result = Return(<<Int_(5)>>)

\* the one dim of the parsed spec
TopDim == parsed.value.dim_specs[1]

\* C11: the negation of a sub-expression that evaluates to (v,) evaluates to
\* (-v,), and '--a' and '-(-a)' evaluate to the value bound to a.
C11_Negation ==
  /\ (/\ Evaluated /\ TopDim.type = "NegDim"
      /\ evaluate(TopDim.child, memo).kind = "ok"
      /\ Len(evaluate(TopDim.child, memo).value) = 1
      /\ IsTracked(evaluate(TopDim.child, memo).value[1]))
     => /\ result.kind = "ok"
        /\ Len(result.value) = 1
        /\ result.value[1].k = evaluate(TopDim.child, memo).value[1].k
        /\ result.value[1].d = evaluate(TopDim.child, memo).value[1].d
        /\ result.value[1].n + evaluate(TopDim.child, memo).value[1].n = 0
  /\ (Evaluated /\ spec_str \in {<<"-", "-", "a">>, <<"-", "(", "-", "a", ")">>})
     => result = Return(<<Int_(Get(memo.single, <<"a">>))>>)

\* '-(-a)' with a=2 gives (2,)
C11_Witness ==
  /\ pc = "evaluated"
  /\ spec_str = <<"-", "(", "-", "a", ")">>
  /\ Get(memo.single, <<"a">>) = 2
  /\ result = Return(<<Int_(2)>>)

\* C14: under a memo of integers every element of the tuple that evaluate
\* returns is an integer, also for specs that use '/'.
C14_IntegerResults ==
  (Evaluated /\ result.kind = "ok") =>
    \A k \in 1..Len(result.value) : result.value[k].k = "int"

\* C15: evaluate of a parsed spec returns a tuple or raises ShapeError, never
\* another kind of error.
C15_OnlyShapeError ==
  Evaluated => result.kind \in {"ok", "ShapeError"}

\* the operand as the node prints it: in parentheses or not
Shown(operand, wrap) ==
  IF wrap THEN <<"(">> \o repr(operand).value \o <<")">> ELSE repr(operand).value

\* C20 as the code has it: a BinaryOp or UnaryNeg node prints an operand in
\* parentheses if and only if the operand's priority is lower than or equal
\* to the node's own priority.
C20_ParenthesesUpToEqual ==
  /\ (Printed /\ TopDim.type = "BinaryOpDim") =>
       text = Return(Shown(TopDim.left, priority(TopDim.left) <= priority(TopDim))
                     \o TopDim.op
                     \o Shown(TopDim.right, priority(TopDim.right) <= priority(TopDim)))
  /\ (Printed /\ TopDim.type = "NegDim") =>
       text = Return(<<"-">> \o Shown(TopDim.child, priority(TopDim.child) <= PriorityUNARY))

\* C20: a BinaryOp or UnaryNeg node prints an operand in parentheses if and
\* only if the operand's priority is strictly lower than the node's own.
C20_Parentheses ==
  /\ (Printed /\ TopDim.type = "BinaryOpDim") =>
       text = Return(Shown(TopDim.left, priority(TopDim.left) < priority(TopDim))
                     \o TopDim.op
                     \o Shown(TopDim.right, priority(TopDim.right) < priority(TopDim)))
  /\ (Printed /\ TopDim.type = "NegDim") =>
       text = Return(<<"-">> \o Shown(TopDim.child, priority(TopDim.child) < PriorityUNARY))

\* 'a+b+a', the tree of 'a+(b+a)', printed: the additive right operand of the
\* additive node is in parentheses
C20_Witness ==
  /\ pc = "printed"
  /\ spec_str = <<"a", "+", "b", "+", "a">>
  /\ TopDim.right.type = "BinaryOpDim"
  /\ text = Return(<<"a", "+", "(", "b", "+", "a", ")">>)

(***************************************************************************)
(* Properties of function calls (SpecFunc).                                *)
(***************************************************************************)
\* the function name the spec string of SpecFunc starts with
CalledFunc == CHOOSE f \in FUNC : SubSeq(spec_str, 1, Len(f) + 1) = f \o <<"(">>

IsVariadicArg(p) == Head(p) = "*"

\* the integers an argument of SpecFunc stands for under the memo
ArgValues(p) ==
  CASE p = <<"a">> -> <<memo.single[1].value>>
    [] p = <<"3">> -> <<3>>
    [] p = <<"a", "-", "1">> -> <<memo.single[1].value - 1>>
    [] p = <<"*", "b">> -> memo.variadic[1].value
    [] p = <<"*", "c">> -> memo.variadic[2].value

RECURSIVE AllArgValues(_)
AllArgValues(ps) == IF ps = <<>> THEN <<>> ELSE ArgValues(Head(ps)) \o AllArgValues(Tail(ps))

RECURSIVE SumOf(_), ProdOf(_)
SumOf(xs) == IF xs = <<>> THEN 0 ELSE Head(xs) + SumOf(Tail(xs))
ProdOf(xs) == IF xs = <<>> THEN 1 ELSE Head(xs) * ProdOf(Tail(xs))

Elems(xs) == {xs[k] : k \in 1..Len(xs)}

\* f(xs) for the integers xs (nonempty for min and max)
Reduced(f, xs) ==
  CASE f = <<"s", "u", "m">> -> SumOf(xs)
    [] f = <<"p", "r", "o", "d">> -> ProdOf(xs)
    [] f = <<"m", "i", "n">> -> CHOOSE m \in Elems(xs) : \A x \in Elems(xs) : m <= x
    [] f = <<"m", "a", "x">> -> CHOOSE m \in Elems(xs) : \A x \in Elems(xs) : m >= x

\* C4: a call with a single non-variadic argument is a syntax error; a call with
\* two or more arguments, with a single variadic argument, or with a mix of
\* expressions and variadic arguments parses.
C4_CallArity ==
  pc # "start" =>
    /\ parsed.kind \in {"ok", "SyntaxError"}
    /\ parsed.kind = "SyntaxError" <=> (Len(pieces) = 1 /\ ~IsVariadicArg(pieces[1]))

\* 'f(a)' rejected
C4_Witness ==
  /\ pc = "parsed"
  /\ pieces = <<<<"a">>>>
  /\ parsed.kind = "SyntaxError"

\* C5: a call f(arg1,...,argn) with n >= 2 evaluates to the one-element tuple
\* (f(all values),) where the values are those of the arguments in order, a
\* variadic argument bound to k values contributing k values (min and max of
\* no value at all have no result and are left out here).
C5_Reduction ==
  (Evaluated /\ Len(pieces) >= 2
   /\ (AllArgValues(pieces) # <<>> \/ CalledFunc \in {<<"s", "u", "m">>, <<"p", "r", "o", "d">>}))
  => result = Return(<<Int_(Reduced(CalledFunc, AllArgValues(pieces)))>>)

\* 'sum(a,*b)' with a=1, b=(2,3) gives (6,)
C5_Witness ==
  /\ pc = "evaluated"
  /\ spec_str = <<"s", "u", "m", "(", "a", ",", "*", "b", ")">>
  /\ memo.single[1].value = 1
  /\ memo.variadic[1].value = <<2, 3>>
  /\ result = Return(<<Int_(6)>>)

\* C6: the node parsed from a call of f with the single variadic argument *b
\* has the argument list [*b], prints as that call, and evaluates to
\* (f(v1,...,vk),) when b is bound to k >= 1 values.
C6_SingleVariadicCall ==
  (Len(pieces) = 1 /\ IsVariadicArg(pieces[1])) =>
    /\ pc # "start" =>
         /\ parsed.kind = "ok"
         /\ parsed.value.dim_specs[1].arguments = arg_list(<<var_dim(<<Tail(pieces[1])>>)>>)
    /\ (Evaluated /\ AllArgValues(pieces) # <<>>) =>
         result = Return(<<Int_(Reduced(CalledFunc, AllArgValues(pieces)))>>)
    /\ Printed => text = Return(spec_str)



(***************************************************************************)
(* Properties of shapes (SpecShape).                                       *)
(***************************************************************************)
\* the values one dim of ShapeDimForms stands for under the memo m, computed
\* from the bindings
DimValues(piece, m) ==
  CASE piece = <<"h">> -> <<Get(m.single, <<"h">>)>>
    [] piece = <<"3">> -> <<3>>
    [] piece = <<"-", "a">> -> <<0 - Get(m.single, <<"a">>)>>
    [] piece = <<"a", "+", "1">> -> <<Get(m.single, <<"a">>) + 1>>
    [] piece = <<"s", "u", "m", "(", "a", ",", "*", "b", ")">> ->
         <<Get(m.single, <<"a">>) + SumOf(Get(m.variadic, <<"b">>))>>
    [] piece = <<"*", "b">> -> Get(m.variadic, <<"b">>)
    [] piece = <<"*", "c">> -> Get(m.variadic, <<"c">>)

\* 1 for a scalar dim, N for a variadic dim bound to N values
Contribution(piece, m) ==
  IF Head(piece) = "*" THEN Len(Get(m.variadic, Tail(piece))) ELSE 1

RECURSIVE Concatenation(_, _), Contributions(_, _)
Concatenation(ps, m) ==
  IF ps = <<>> THEN <<>> ELSE DimValues(Head(ps), m) \o Concatenation(Tail(ps), m)

Contributions(ps, m) ==
  IF ps = <<>> THEN 0 ELSE Contribution(Head(ps), m) + Contributions(Tail(ps), m)

\* the string form of the first node of the dim, in evaluation order, whose
\* name the memo does not bind (<<>> when the dim has none)
FirstUnbound(piece) ==
  CASE piece = <<"d">> -> <<"d">>
    [] piece = <<"*", "d">> -> <<"*", "d">>
    [] piece = <<"-", "d">> -> <<"d">>
    [] piece = <<"x", "-", "d">> -> <<"x">>
    [] piece = <<"s", "u", "m", "(", "a", ",", "*", "d", ")">> -> <<"*", "d">>
    [] piece = <<"s", "u", "m", "(", "x", ",", "d", ")">> -> <<"x">>
    [] OTHER -> <<>>

AllBound(ps) == \A k \in 1..Len(ps) : FirstUnbound(ps[k]) = <<>>

\* C7: a spec whose dims all evaluate successfully evaluates to the in-order
\* concatenation of its dims' tuples, of length the sum over the dims of 1
\* for a scalar dim and N for a variadic dim bound to N values.
C7_Concatenation ==
  (Evaluated /\ AllBound(pieces)) =>
    /\ result.kind = "ok"
    /\ result.value = [k \in 1..Len(Concatenation(pieces, memo)) |->
                         Int_(Concatenation(pieces, memo)[k])]
    /\ Len(result.value) = Contributions(pieces, memo)

\* '*b h' with variadic b=(2,3), single h=4 gives (2,3,4)
C7_Witness ==
  /\ pc = "evaluated"
  /\ spec_str = <<"*", "b", " ", "h">>
  /\ Get(memo.variadic, <<"b">>) = <<2, 3>>
  /\ Get(memo.single, <<"h">>) = 4
  /\ result = Return(<<Int_(2), Int_(3), Int_(4)>>)

\* the first dim of ps that fails to evaluate
FirstFailing(ps) ==
  ps[CHOOSE k \in 1..Len(ps) :
       /\ FirstUnbound(ps[k]) # <<>>
       /\ \A j \in 1..(k - 1) : FirstUnbound(ps[j]) = <<>>]

\* C16: when a dim of the spec fails to evaluate, at top level or inside a
\* negation, a binary op or a function argument, evaluate raises and returns
\* no value at all, and the error is that of the first failing node in
\* left-to-right order.
C16_AllOrNothing ==
  (Evaluated /\ ~AllBound(pieces)) =>
    /\ result.kind = "ShapeError"
    /\ result.value = <<>>
    /\ result.message.text = "No value known"
    /\ result.message.dim = FirstUnbound(FirstFailing(pieces))
    /\ result.message.known =
         IF Head(FirstUnbound(FirstFailing(pieces))) = "*"
         THEN <<<<"b">>, <<"c">>>> ELSE <<<<"a">>, <<"h">>>>

\* 'h sum(x,d)': the dim h evaluates, x inside the call does not; no value
C16_Witness ==
  /\ pc = "evaluated"
  /\ pieces = <<<<"h">>, <<"s", "u", "m", "(", "x", ",", "d", ")">>>>
  /\ result.kind = "ShapeError"
  /\ result.value = <<>>
  /\ result.message.dim = <<"x">>

(***************************************************************************)
(* Properties of dims (SpecDims).                                          *)
(***************************************************************************)
OneDim == Len(pieces) = 1

\* the spellings that are not expressions
OtherDimForms ==
  {<<"*">> \o n : n \in DimNames} \cup AnonDimForms \cup BroadcastDimForms

\* '#*name' for '*#name' and back, any other spelling unchanged
OtherSpelling(piece) ==
  IF Len(piece) < 2 THEN piece
  ELSE IF SubSeq(piece, 1, 2) = <<"#", "*">> THEN <<"*", "#">> \o SubSeq(piece, 3, Len(piece))
  ELSE IF SubSeq(piece, 1, 2) = <<"*", "#">> THEN <<"#", "*">> \o SubSeq(piece, 3, Len(piece))
  ELSE piece

\* C2: for each spelling of a dim that is not an expression, the string form
\* of the parsed node is a parsable spec string that parses to a node equal to
\* the parsed one, and '#*name' and '*#name' parse to equal nodes.
C2_DimRoundTrip ==
  (OneDim /\ pieces[1] \in OtherDimForms) =>
    /\ pc # "start" => /\ parsed.kind = "ok"
                       /\ parsed = parse_shape_spec(OtherSpelling(pieces[1]))
    /\ Printed => text.kind = "ok"
    /\ Reparsed => reparsed = parsed

\* C8: the node parsed from '_', '_name', '...', '*_' or '*_name' raises
\* ShapeError when evaluated, whatever the memo binds, and no spec containing
\* such a dim evaluates.
C8_AnonymousNotEvaluable ==
  (Evaluated /\ \E k \in 1..Len(pieces) : pieces[k] \in AnonDimForms) =>
    /\ result.kind # "ok"
    /\ OneDim => /\ result.kind = "ShapeError"
                 /\ result.message.text = "Cannot evaluate anonymous dimension"

\* '_a' evaluated under a memo that binds a in single and in variadic
C8_Witness ==
  /\ pc = "evaluated"
  /\ pieces = <<<<"_", "a">>>>
  /\ Has(memo.single, <<"a">>)
  /\ Has(memo.variadic, <<"a">>)
  /\ result.kind = "ShapeError"

\* C9: the node parsed from '#name', '#int', '#*name' or '*#name' raises
\* ShapeError when evaluated, whatever the memo binds.
C9_BroadcastableNotEvaluable ==
  (Evaluated /\ OneDim /\ pieces[1] \in BroadcastDimForms) =>
    /\ result.kind = "ShapeError"
    /\ result.message.text \in {"Cannot evaluate a broadcastable dim",
                                "Cannot evaluate a broadcastable dimension",
                                "Cannot evaluate a broadcastable variadic dimension"}

\* '#3' evaluated
C9_Witness ==
  /\ pc = "evaluated"
  /\ pieces = <<<<"#", "3">>>>
  /\ result.kind = "ShapeError"

\* the mapping a named dim consults
Consulted(piece, m) == IF Head(piece) = "*" THEN m.variadic ELSE m.single

NameOf(piece) == IF Head(piece) = "*" THEN Tail(piece) ELSE piece

\* the order of the keys a, ab, b
Rank(key) == CASE key = <<"a">> -> 1 [] key = <<"a", "b">> -> 2 [] key = <<"b">> -> 3

Ascending(keys) == \A k \in 1..(Len(keys) - 1) : Rank(keys[k]) < Rank(keys[k + 1])

\* C10: a named dim, scalar or variadic, whose name the consulted mapping
\* lacks raises ShapeError when evaluated; the error carries the string form
\* of the dim and the keys of the consulted mapping in ascending order, and
\* there is no value.
C10_UnboundName ==
  (/\ Evaluated /\ OneDim /\ pieces[1] \in NamedDimForms
   /\ \A k \in 1..Len(Consulted(pieces[1], memo)) :
        Consulted(pieces[1], memo)[k].key # NameOf(pieces[1])) =>
    /\ result.kind = "ShapeError"
    /\ result.value = <<>>
    /\ result.message.text = "No value known"
    /\ result.message.dim = pieces[1]
    /\ Len(result.message.known) = Len(Consulted(pieces[1], memo))
    /\ Elems(result.message.known) = Elems(Keys(Consulted(pieces[1], memo)))
    /\ Ascending(result.message.known)

\* 'a' evaluated under single = {b: ..., ab: ...}: the error lists ab, b
C10_Witness ==
  /\ pc = "evaluated"
  /\ pieces = <<<<"a">>>>
  /\ Keys(memo.single) = <<<<"b">>, <<"a", "b">>>>
  /\ result.kind = "ShapeError"
  /\ result.message.known = <<<<"a", "b">>, <<"b">>>>



(***************************************************************************)
(* Properties of nodes built by the caller (SpecNodes).                    *)
(***************************************************************************)
\* how many values the operand stands for under the memo
Arity(operand) ==
  IF operand.type = "VariadicDim" THEN Len(Get(memo.variadic, operand.name)) ELSE 1

\* C12: evaluating a BinaryOp node whose left or right operand evaluates to a
\* tuple of length 0 or of length > 1 raises ShapeError and returns no value.
C12_BinaryOperandArity ==
  (/\ Evaluated /\ pieces[1].type = "BinaryOpDim"
   /\ (Arity(pieces[1].left) # 1 \/ Arity(pieces[1].right) # 1))
  => /\ result.kind = "ShapeError"
     /\ result.value = <<>>

\* C13: evaluating a UnaryNeg node whose child evaluates to a tuple of length
\* 0 or of length > 1 raises ShapeError, and never returns a result.
C13_NegOperandArity ==
  (Evaluated /\ pieces[1].type = "NegDim" /\ Arity(pieces[1].child) # 1)
  => /\ result.kind = "ShapeError"
     /\ result.value = <<>>



(***************************************************************************)
(* Properties of malformed specs (SpecSyntax).                             *)
(***************************************************************************)
\* C17: parse_shape_spec of a string that does not conform to the grammar
\* raises a syntax error, which is not ShapeError, and returns no ShapeSpec,
\* whatever well-formed dims lead the string; parse_shape_spec never raises
\* ShapeError (a conforming string gives a ShapeSpec).
C17_SyntaxError ==
  pc # "start" =>
    /\ parsed.kind # "ShapeError"
    /\ pieces[Len(pieces)] \in BadDims =>
         /\ parsed.kind = "SyntaxError"
         /\ parsed.value = <<>>
    /\ pieces[Len(pieces)] \in GoodDims => parsed.kind = "ok"

\* 'a b)' is rejected although its leading dim a is well-formed
C17_Witness ==
  /\ pc = "parsed"
  /\ spec_str = <<"a", " ", "b", ")">>
  /\ parsed.kind = "SyntaxError"
  /\ parsed.value = <<>>


(***************************************************************************)
(* Properties of concurrent and repeated evaluation (SpecCalls).           *)
(***************************************************************************)
Ended(t) == calls[t].n > 0 /\ calls[t].pos = 0

\* C18: under every interleaving, each evaluation of the one parsed ShapeSpec
\* by a thread ends with what evaluate gives when run alone against that
\* thread's memo.
C18_ConcurrentEvaluation ==
  \A t \in DOMAIN calls :
    Ended(t) => calls[t].out = evaluate(parsed.value, memos[calls[t].memo])

\* thread 1 has its result for the first memo while thread 2, between two
\* dims of its call, holds a value from the second memo
C18_Witness ==
  /\ spec_str = <<"*", "b", " ", "h">>
  /\ Ended(1) /\ calls[1].memo = 1
  /\ calls[1].out = Return(<<Int_(2), Int_(3), Int_(4)>>)
  /\ calls[2].memo = 2 /\ calls[2].pos = 2
  /\ calls[2].acc = <<Int_(5)>>

\* the calls that ended gave one outcome per memo
SameOutcomes == \A e \in log : \A f \in log : e[1] = f[1] => e[2] = f[2]

\* C19: evaluate calls, successful or failing, leave the tree and every memo
\* as they were, and the calls against one memo all have the same outcome,
\* whatever was evaluated before.
C19_NoSideEffects ==
  /\ [][(pc # "start" => parsed' = parsed) /\ memos' = memos]_vars
  /\ [](SameOutcomes)

\* after two calls by thread 1, one returned and one raised
C19_Witness ==
  /\ spec_str = <<"h", " ", "a", "+", "1">>
  /\ calls[1].n = 2 /\ calls[1].pos = 0
  /\ <<1, Return(<<Int_(4), Int_(7)>>)>> \in log
  /\ \E e \in log : e[1] = 2 /\ e[2].kind = "ShapeError"


(***************************************************************************)
(* Properties of operator chains (SpecPrec, SpecExpr).                     *)
(***************************************************************************)
\* C21: an unparenthesized chain of the operators * / // % applies the
\* leftmost operator first: 'a//b//c' evaluates to ((a//b)//c,), 'a%b*c' to
\* ((a%b)*c,) and 'a//b*c' to ((a//b)*c,), for all bindings with non-zero
\* divisors.
C21_LeftToRight ==
  Evaluated =>
    /\ (spec_str = <<"a", "/", "/", "b", "/", "/", "c">> /\ ValB # 0 /\ ValC # 0) =>
         result = Return(<<Int_(Floor(Floor(ValA, ValB), ValC))>>)
    /\ (spec_str = <<"a", "%", "b", "*", "c">> /\ ValB # 0) =>
         result = Return(<<Int_((ValA - ValB * Floor(ValA, ValB)) * ValC)>>)
    /\ (spec_str = <<"a", "/", "/", "b", "*", "c">> /\ ValB # 0) =>
         result = Return(<<Int_(Floor(ValA, ValB) * ValC)>>)

Name(n) == SingleDim(n, FALSE, FALSE)

Bound(n) == Get(memo.single, n)

\* C22: 'a**b**c' parses as a**(b**c), '-a**b' as -(a**b) and 'a**-b' as
\* a**(-b), and with non-negative exponents they evaluate to (a**(b**c),),
\* (-(a**b),) and the power of a with the exponent -b.
C22_Power ==
  /\ (pc # "start" /\ spec_str = <<"a", "*", "*", "b", "*", "*", "c">>) =>
       parsed = Return(ShapeSpec(<<BinaryOpDim(<<"*", "*">>, Name(<<"a">>),
                         BinaryOpDim(<<"*", "*">>, Name(<<"b">>), Name(<<"c">>)))>>))
  /\ (pc # "start" /\ spec_str = <<"-", "a", "*", "*", "b">>) =>
       parsed = Return(ShapeSpec(<<NegDim(BinaryOpDim(<<"*", "*">>, Name(<<"a">>),
                                                      Name(<<"b">>)))>>))
  /\ (pc # "start" /\ spec_str = <<"a", "*", "*", "-", "b">>) =>
       parsed = Return(ShapeSpec(<<BinaryOpDim(<<"*", "*">>, Name(<<"a">>),
                                               NegDim(Name(<<"b">>)))>>))
  /\ (Evaluated /\ spec_str = <<"a", "*", "*", "b", "*", "*", "c">>) =>
       result = Return(<<Int_(IntPow(Bound(<<"a">>), IntPow(Bound(<<"b">>), Bound(<<"c">>))))>>)
  /\ (Evaluated /\ spec_str = <<"-", "a", "*", "*", "b">>) =>
       result = Return(<<Int_(0 - IntPow(Bound(<<"a">>), Bound(<<"b">>)))>>)
  /\ (Evaluated /\ spec_str = <<"a", "*", "*", "-", "b">> /\ Bound(<<"a">>) # 0) =>
       result = Return(<<IF Bound(<<"b">>) = 0 THEN Int_(1)
                         ELSE Float_(1, IntPow(Bound(<<"a">>), Bound(<<"b">>)))>>)

\* 'a**b**c' with a=2, b=1, c=2 gives 2**(1**2) = 2, not (2**1)**2 = 4
C22_Witness ==
  /\ pc = "evaluated"
  /\ spec_str = <<"a", "*", "*", "b", "*", "*", "c">>
  /\ Bound(<<"a">>) = 2 /\ Bound(<<"b">>) = 1 /\ Bound(<<"c">>) = 2
  /\ result = Return(<<Int_(2)>>)

\* C23: a named scalar dim is resolved through memo.single only and a
\* variadic dim through memo.variadic only: each evaluates to the binding of
\* its name in its own mapping, and raises the unbound-name error when that
\* mapping lacks the name, whatever the other mapping binds.
C23_Namespaces ==
  (Evaluated /\ OneDim /\ pieces[1] \in NamedDimForms) =>
    IF Head(pieces[1]) = "*"
    THEN IF Tail(pieces[1]) \in Elems(Keys(memo.variadic))
         THEN result = Return([k \in 1..Len(VariadicValue(Tail(pieces[1]))) |->
                                 Int_(VariadicValue(Tail(pieces[1]))[k])])
         ELSE result.kind = "ShapeError" /\ result.message.text = "No value known"
    ELSE IF pieces[1] \in Elems(Keys(memo.single))
         THEN result = Return(<<Int_(SingleValue(pieces[1]))>>)
         ELSE result.kind = "ShapeError" /\ result.message.text = "No value known"

\* '*a' with a bound in memo.single only: the unbound-name error
C23_Witness ==
  /\ pc = "evaluated"
  /\ pieces = <<<<"*", "a">>>>
  /\ <<"a">> \in Elems(Keys(memo.single))
  /\ <<"a">> \notin Elems(Keys(memo.variadic))
  /\ result.kind = "ShapeError"



(***************************************************************************)
(* Properties of the walk of one evaluate call (SpecWalk).                 *)
(***************************************************************************)
NoRevisit ==
  \A i \in 1..Len(walk.visited) : \A j \in 1..Len(walk.visited) :
    i # j => walk.visited[i] # walk.visited[j]

\* C24: an evaluate call eventually finishes, returning a tuple or raising an
\* error, and visits each node of the tree at most once.
C24_Termination ==
  /\ [](NoRevisit)
  /\ [](pc = "evaluated" => result = evaluate(parsed.value, memo))
  /\ ((pc = "parsed" /\ parsed.kind = "ok") ~> (pc = "evaluated"))

\* 'sum(a,*b) -a' evaluated: the call visited the six nodes of the tree
C24_Witness ==
  /\ pc = "evaluated"
  /\ spec_str = <<"s", "u", "m", "(", "a", ",", "*", "b", ")", " ", "-", "a">>
  /\ result.kind = "ok"
  /\ Len(walk.visited) = 6


(***************************************************************************)
(* Properties of the registration (SpecRegister).                          *)
(***************************************************************************)
OneEntryPerQualname(fns) ==
  \A i \in 1..Len(fns) : \A j \in 1..Len(fns) :
    i # j => fns[i].qualname # fns[j].qualname

\* the positions of fns that hold a function with the qualname
Holding(fns, qualname) == {i \in 1..Len(fns) : fns[i].qualname = qualname}

\* new is old with the first function of fn's qualname replaced by fn
ReplacedFirst(old, new, fn) ==
  /\ Len(new) = Len(old)
  /\ \A i \in 1..Len(old) :
       new[i] = IF i \in Holding(old, fn.qualname)
                   /\ \A j \in Holding(old, fn.qualname) : i <= j
                THEN fn ELSE old[i]

\* C25: a registration replaces in place the first registered function with
\* the qualname of the new one, or else inserts the new one at the front; a
\* list with one entry per qualname stays so, and then the copy registered
\* last is the one present.
C25_Registration ==
  /\ [][IF Holding(checker_lookup_fns, lookup_fn'.qualname) # {}
        THEN ReplacedFirst(checker_lookup_fns, checker_lookup_fns', lookup_fn')
        ELSE checker_lookup_fns' = <<lookup_fn'>> \o checker_lookup_fns]_vars
  /\ [][OneEntryPerQualname(checker_lookup_fns)
        => OneEntryPerQualname(checker_lookup_fns')]_vars
  /\ []((lookup_fn # None /\ OneEntryPerQualname(checker_lookup_fns)) =>
          \A i \in 1..Len(checker_lookup_fns) :
            checker_lookup_fns[i].qualname = lookup_fn.qualname
            => checker_lookup_fns[i] = lookup_fn)
  /\ [](lookup_fn # None => \E i \in 1..Len(checker_lookup_fns) :
                               checker_lookup_fns[i] = lookup_fn)

\* the reloaded copy of _array_spec_checker_lookup took the place of the
\* first copy, behind _dataclass_checker_lookup
C25_Witness ==
  /\ lookup_fn = [qualname |-> "_array_spec_checker_lookup", copy |-> 2]
  /\ checker_lookup_fns =
       <<[qualname |-> "_dataclass_checker_lookup", copy |-> 1],
         [qualname |-> "_array_spec_checker_lookup", copy |-> 2],
         [qualname |-> "builtin_checker_lookup", copy |-> 1]>>


(***************************************************************************)
(* Properties of the union checker (SpecUnion).                            *)
(***************************************************************************)
Supported(e) == e.kind \in {"str", "Pattern"}

\* the dtype check of m answers True
DtypeFits(m) ==
  \/ m.dtypes.any
  \/ \E j \in 1..Len(m.dtypes.items) :
       /\ Supported(m.dtypes.items[j]) /\ m.dtypes.items[j].matches
       /\ \A k \in 1..(j - 1) : Supported(m.dtypes.items[k])

\* the dtype check of m reads an entry that is no str and no pattern
DtypeUnsupported(m) ==
  /\ ~m.dtypes.any
  /\ \E j \in 1..Len(m.dtypes.items) :
       /\ ~Supported(m.dtypes.items[j])
       /\ \A k \in 1..(j - 1) : ~m.dtypes.items[k].matches

\* the dtype checks read such an entry before any of them answers True
ReadsUnsupported ==
  \E i \in 1..Len(individual_matches) :
    /\ DtypeUnsupported(individual_matches[i])
    /\ \A h \in 1..(i - 1) : /\ ~DtypeFits(individual_matches[h])
                             /\ ~DtypeUnsupported(individual_matches[h])

SomeFull == \E i \in 1..Len(individual_matches) : individual_matches[i].isinstance_array_spec

SomeType == \E i \in 1..Len(individual_matches) : individual_matches[i].isinstance_array_type

SomeDtype == \E i \in 1..Len(individual_matches) : DtypeFits(individual_matches[i])

NeverCombined == checked.message.text # "which did not match any of"

ReturnsIffFull == pc = "checked" => (checked.kind = "ok" <=> SomeFull)

====
